---------------------------- MODULE Spec2Model ----------------------------
(***************************************************************************)
(* A model of ccb_essentials:                                              *)
(*   - signal.py      DelayedKeyboardInterrupt, a scoped guard that defers *)
(*                    SIGINT until the guarded block has been left;        *)
(*   - filesystem.py  common_root, common_ancestor, common_parent and tree.*)
(*                                                                         *)
(* The guard is a state machine (SpecSignal).  The path functions are pure *)
(* apart from Path.is_dir() and Path.iterdir(), which read the filesystem; *)
(* they are operators applied by one action each to arguments and to a     *)
(* filesystem drawn from bounded sets (SpecRoot, SpecAncestor, SpecParent, *)
(* SpecTree).                                                              *)
(***************************************************************************)
EXTENDS Naturals, Integers, Sequences, FiniteSets

VARIABLES
    \* ---- the process-wide SIGINT disposition and the guard object ----
    installed,        \* the handler signal.getsignal(SIGINT) would return
    old_handler,      \* self.old_handler ("unset" before the first __enter__)
    signal_received,  \* self.signal_received: None or <<(sig, frame)>>
    pc,               \* where the main thread is relative to the with-block
    enter_ret,        \* value returned by signal.signal in __enter__, not yet stored
    blockStep,        \* statements of the protected block already executed
    exitPath,         \* how the protected block was left
    propagated,       \* what propagated out of the with statement
    cycle,            \* number of __enter__ calls made on the object so far
    signals,          \* number of SIGINTs delivered so far
    before,           \* history: the disposition found by the latest __enter__
    arrived,          \* history: SIGINTs the guard's handler took in this armed period
    invoked,          \* history: calls of old_handler made by __exit__ in this cycle
    exitStage,        \* history: how far __exit__ got in this cycle
    \* ---- the filesystem and one call of a path function ----
    dirs,             \* absolute paths (sequences of names) that are directories
    files,            \* absolute paths that exist and are not directories
    args,             \* the arguments of the call
    op,               \* "none" before the call, afterwards the function called
    result            \* what the call returned

vars == <<installed, old_handler, signal_received, pc, enter_ret, blockStep,
          exitPath, propagated, cycle, signals, before, arrived, invoked,
          exitStage, dirs, files, args, op, result>>

sigVars == <<installed, old_handler, signal_received, pc, enter_ret, blockStep,
             exitPath, propagated, cycle, signals, before, arrived, invoked,
             exitStage>>

fsVars == <<dirs, files, args, op, result>>

-----------------------------------------------------------------------------
(* Bounds of the signal model. *)

\* __enter__ calls made on the one guard object
MaxCycles == 2
\* statements in the protected block
BlockLen == 2
\* SIGINTs delivered in a run
MaxSignals == 2

\* signal.SIGINT
SIGINT == 2

\* self.signal_received is None (falsy); a recorded signal is <<[sig, frame]>>
NoSignal == <<>>

\* The dispositions SIGINT can have before the guard is entered: a Python
\* callable (signal.default_int_handler or a user function), signal.SIG_DFL
\* and signal.SIG_IGN.  The last two are integers (enum members), not callables.
PreviousHandlers == {"callable", "SIG_DFL", "SIG_IGN"}

IsCallable(h) == h \in {"callable", "guard"}

\* The frame a handler is passed: the point the main thread has reached.
CurrentFrame == <<cycle, blockStep>>

\* What leaves the with statement when __exit__ itself raises nothing.
BlockOutcome(path) ==
    CASE path = "raise" -> "BlockError"
      [] path = "interrupted" -> "KeyboardInterrupt"
      [] OTHER -> "none"

-----------------------------------------------------------------------------
(* DelayedKeyboardInterrupt *)

\* __init__: self.signal_received = None
GuardInit ==
    /\ signal_received = NoSignal
    /\ old_handler = "unset"

\* __enter__, first half: signal.signal(signal.SIGINT, self.handler) installs
\* the guard's handler and returns the previous one.
EnterInstall ==
    /\ UNCHANGED fsVars
    /\ pc = "idle"
    /\ cycle < MaxCycles
    /\ enter_ret' = installed
    /\ installed' = "guard"
    /\ pc' = "entering"
    /\ cycle' = cycle + 1
    /\ before' = installed
    /\ arrived' = 0
    /\ invoked' = <<>>
    /\ exitStage' = "none"
    /\ blockStep' = 0
    /\ exitPath' = "none"
    /\ propagated' = "none"
    /\ UNCHANGED <<old_handler, signal_received, signals>>

\* __enter__, second half: self.old_handler = <the returned handler>
EnterStore ==
    /\ UNCHANGED fsVars
    /\ pc = "entering"
    /\ old_handler' = enter_ret
    /\ pc' = "armed"
    /\ UNCHANGED <<installed, signal_received, enter_ret, blockStep, exitPath,
                   propagated, cycle, signals, before, arrived, invoked,
                   exitStage>>

\* One statement of the protected block.
BlockStep ==
    /\ UNCHANGED fsVars
    /\ pc = "armed"
    /\ blockStep < BlockLen
    /\ blockStep' = blockStep + 1
    /\ UNCHANGED <<installed, old_handler, signal_received, pc, enter_ret,
                   exitPath, propagated, cycle, signals, before, arrived, invoked,
                   exitStage>>

\* The block is left: it ran to its end, returned early, or raised.  The with
\* statement calls __exit__ on each of these paths.
BlockLeave ==
    /\ UNCHANGED fsVars
    /\ pc = "armed"
    /\ \E path \in {"normal", "return", "raise"} :
          /\ path = "normal" => blockStep = BlockLen
          /\ exitPath' = path
    /\ pc' = "leaving"
    /\ UNCHANGED <<installed, old_handler, signal_received, enter_ret, blockStep,
                   propagated, cycle, signals, before, arrived, invoked,
                   exitStage>>

\* A faulty __exit__ that puts the old handler back only when the block did not
\* raise (as a restore written after the block instead of in __exit__ would).
ExitRestoreOnSuccessOnly ==
    /\ UNCHANGED fsVars
    /\ pc = "leaving"
    /\ installed' = IF exitPath = "raise" THEN installed ELSE old_handler
    /\ pc' = "restored"
    /\ exitStage' = "restored"
    /\ UNCHANGED <<old_handler, signal_received, enter_ret, blockStep, exitPath,
                   propagated, cycle, signals, before, arrived, invoked>>

\* __exit__, first statement: signal.signal(signal.SIGINT, self.old_handler)
ExitRestore ==
    /\ UNCHANGED fsVars
    /\ pc = "leaving"
    /\ installed' = old_handler
    /\ pc' = "restored"
    /\ exitStage' = "restored"
    /\ UNCHANGED <<old_handler, signal_received, enter_ret, blockStep, exitPath,
                   propagated, cycle, signals, before, arrived, invoked>>

\* __exit__, second statement:
\*     if self.signal_received: self.old_handler(*self.signal_received)
\* A callable old handler runs (and may raise, as signal.default_int_handler
\* does); calling SIG_DFL or SIG_IGN raises TypeError.
ExitRedeliver ==
    /\ UNCHANGED fsVars
    /\ pc = "restored"
    /\ IF signal_received # NoSignal
       THEN IF IsCallable(old_handler)
            THEN /\ invoked' = Append(invoked, [args |-> signal_received[1],
                                                 installed |-> installed])
                 /\ \E raises \in BOOLEAN :
                       propagated' = IF raises THEN "KeyboardInterrupt"
                                     ELSE BlockOutcome(exitPath)
            ELSE /\ invoked' = invoked
                 /\ propagated' = "TypeError"
       ELSE /\ invoked' = invoked
            /\ propagated' = BlockOutcome(exitPath)
    /\ pc' = "idle"
    /\ exitStage' = "done"
    /\ UNCHANGED <<installed, old_handler, signal_received, enter_ret, blockStep,
                   exitPath, cycle, signals, before, arrived>>

\* handler(self, sig, frame): self.signal_received = (sig, frame)
handler(sig, frame) ==
    signal_received' = <<[sig |-> sig, frame |-> frame]>>

\* SIGINT arrives while the guard's handler is installed.
DeliverToGuard ==
    /\ UNCHANGED fsVars
    /\ pc \in {"idle", "entering", "armed", "leaving", "restored"}
    /\ signals < MaxSignals
    /\ installed = "guard"
    /\ handler(SIGINT, CurrentFrame)
    /\ arrived' = arrived + 1
    /\ signals' = signals + 1
    /\ UNCHANGED <<installed, old_handler, pc, enter_ret, blockStep, exitPath,
                   propagated, cycle, before, invoked, exitStage>>

\* SIGINT arrives while a Python callable other than the guard's is installed:
\* the interpreter runs it in the main thread.  If it raises, the exception
\* surfaces wherever the main thread is.
DeliverToCallable ==
    /\ UNCHANGED fsVars
    /\ pc \in {"idle", "entering", "armed", "leaving", "restored"}
    /\ signals < MaxSignals
    /\ installed = "callable"
    /\ signals' = signals + 1
    /\ \E raises \in BOOLEAN :
          IF ~raises \/ pc = "idle"
          THEN UNCHANGED <<pc, exitPath, propagated>>
          ELSE IF pc = "armed"
               THEN /\ pc' = "leaving"
                    /\ exitPath' = "interrupted"
                    /\ UNCHANGED propagated
               ELSE /\ pc' = "idle"
                    /\ propagated' = "KeyboardInterrupt"
                    /\ UNCHANGED exitPath
    /\ UNCHANGED <<installed, old_handler, signal_received, enter_ret, blockStep,
                   cycle, before, arrived, invoked,
                   exitStage>>

\* SIGINT arrives under SIG_DFL: the process is terminated.
DeliverDefault ==
    /\ UNCHANGED fsVars
    /\ pc \in {"idle", "entering", "armed", "leaving", "restored"}
    /\ signals < MaxSignals
    /\ installed = "SIG_DFL"
    /\ signals' = signals + 1
    /\ pc' = "dead"
    /\ UNCHANGED <<installed, old_handler, signal_received, enter_ret, blockStep,
                   exitPath, propagated, cycle, before, arrived, invoked,
                   exitStage>>

\* SIGINT arrives under SIG_IGN: nothing happens.
DeliverIgnored ==
    /\ UNCHANGED fsVars
    /\ pc \in {"idle", "entering", "armed", "leaving", "restored"}
    /\ signals < MaxSignals
    /\ installed = "SIG_IGN"
    /\ signals' = signals + 1
    /\ UNCHANGED <<installed, old_handler, signal_received, pc, enter_ret,
                   blockStep, exitPath, propagated, cycle, before, arrived, invoked,
                   exitStage>>

FsIdle ==
    /\ dirs = {<<>>}
    /\ files = {}
    /\ args = <<>>
    /\ op = "none"
    /\ result = <<>>

InitSignal ==
    /\ installed \in PreviousHandlers
    /\ GuardInit
    /\ pc = "idle"
    /\ enter_ret = "unset"
    /\ blockStep = 0
    /\ exitPath = "none"
    /\ propagated = "none"
    /\ cycle = 0
    /\ signals = 0
    /\ before = installed
    /\ arrived = 0
    /\ invoked = <<>>
    /\ exitStage = "none"
    /\ FsIdle

NextSignal ==
    \/ EnterInstall
    \/ EnterStore
    \/ BlockStep
    \/ BlockLeave
    \/ ExitRestore
    \/ ExitRedeliver
    \/ DeliverToGuard
    \/ DeliverToCallable
    \/ DeliverDefault
    \/ DeliverIgnored

SpecSignal == InitSignal /\ [][NextSignal]_vars

\* The guard is not in use (the path specifications).
SigIdle ==
    /\ installed = "callable"
    /\ GuardInit
    /\ pc = "idle"
    /\ enter_ret = "unset"
    /\ blockStep = 0
    /\ exitPath = "none"
    /\ propagated = "none"
    /\ cycle = 0
    /\ signals = 0
    /\ before = "callable"
    /\ arrived = 0
    /\ invoked = <<>>
    /\ exitStage = "none"

-----------------------------------------------------------------------------
(* pathlib.Path, as filesystem.py uses it.  A path is its anchor ("abs" for *)
(* a path that starts at the root "/", "rel" otherwise) and the sequence   *)
(* of its components; names are numbers, ordered as the strings are.       *)

\* names a path component is drawn from: 1..NumNames
NumNames == 2
\* longest path handed to common_root
RootDepth == 2
\* entries (files and directories) in the filesystem under common_root
RootEntries == 3
\* longest path, longest sequence and filesystem size for common_ancestor
AncDepth == 3
AncLen == 3
AncEntries == 2
\* longest path and longest sequence handed to common_parent
ParDepth == 2
ParLen == 3

\* the component 'x' that common_root appends to a directory
XSeg == 0

AbsPath(s) == [kind |-> "abs", parts |-> s]
RelPath(s) == [kind |-> "rel", parts |-> s]

\* the value None that the path functions return
None == [kind |-> "None", parts |-> <<>>]

\* Path('/')
Root == AbsPath(<<>>)

\* Path(): the relative path '.'
PathDot == RelPath(<<>>)

Prefix(s, n) == SubSeq(s, 1, n)

IsPrefix(s, t) == Len(s) <= Len(t) /\ Prefix(t, Len(s)) = s

\* Path.is_absolute()
IsAbsolute(p) == p.kind = "abs"

\* Path.is_dir(): the path exists and is a directory
IsDir(p) == p.kind = "abs" /\ p.parts \in dirs

\* Path.parent: the path without its last component; '/' and '.' are their own
Parent(p) ==
    IF p.parts = <<>> THEN p
    ELSE [p EXCEPT !.parts = Prefix(@, Len(@) - 1)]

\* Path.parents: the ancestors, the immediate parent first, the anchor last
Parents(p) ==
    [i \in 1..Len(p.parts) |-> [p EXCEPT !.parts = Prefix(@, Len(@) - i)]]

\* p / seg
Join(p, seg) == [p EXCEPT !.parts = Append(@, seg)]

\* list(reversed(s))
Reversed(s) == [i \in 1..Len(s) |-> s[Len(s) + 1 - i]]

Min(m, n) == IF m <= n THEN m ELSE n

\* common_root's loop: for n in range(min(len(a_parents), len(b_parents))),
\* with n counted from 1, carrying root
RECURSIVE CommonRootLoop(_, _, _, _)
CommonRootLoop(a_parents, b_parents, n, root) ==
    IF n > Min(Len(a_parents), Len(b_parents)) THEN root
    ELSE IF a_parents[n] = b_parents[n]
         THEN CommonRootLoop(a_parents, b_parents, n + 1, a_parents[n])
         ELSE root

\* A common_root that forgets to append 'x' to a directory a.
common_root_a_as_file(a, b) ==
    IF ~IsAbsolute(a) \/ ~IsAbsolute(b) THEN None
    ELSE LET b1 == IF IsDir(b) THEN Join(b, XSeg) ELSE b
         IN  CommonRootLoop(Reversed(Parents(a)), Reversed(Parents(b1)), 1, PathDot)

\* A common_root that forgets to append 'x' to a directory b.
common_root_b_as_file(a, b) ==
    IF ~IsAbsolute(a) \/ ~IsAbsolute(b) THEN None
    ELSE LET a1 == IF IsDir(a) THEN Join(a, XSeg) ELSE a
         IN  CommonRootLoop(Reversed(Parents(a1)), Reversed(Parents(b)), 1, PathDot)

\* common_root(a, b): find the deepest common directory
common_root(a, b) ==
    IF ~IsAbsolute(a) \/ ~IsAbsolute(b) THEN None
    ELSE LET a1 == IF IsDir(a) THEN Join(a, XSeg) ELSE a
             b1 == IF IsDir(b) THEN Join(b, XSeg) ELSE b
             a_parents == Reversed(Parents(a1))
             b_parents == Reversed(Parents(b1))
         IN  CommonRootLoop(a_parents, b_parents, 1, PathDot)

\* common_ancestor's loop over paths[i..], carrying common
RECURSIVE CommonAncestorLoop(_, _, _)
CommonAncestorLoop(paths, i, common) ==
    IF i > Len(paths) THEN common
    ELSE LET path == IF ~IsDir(paths[i]) THEN Parent(paths[i]) ELSE paths[i]
         IN  IF common = None
             THEN CommonAncestorLoop(paths, i + 1, path)
             ELSE IF common # path
                  THEN LET c == common_root(common, path)
                       IN  IF c = None THEN None
                           ELSE CommonAncestorLoop(paths, i + 1, c)
                  ELSE CommonAncestorLoop(paths, i + 1, common)

\* common_ancestor(paths): the deepest directory common to all paths
common_ancestor(paths) == CommonAncestorLoop(paths, 1, None)

\* common_parent's loop over paths[i..], carrying common
RECURSIVE CommonParentLoop(_, _, _)
CommonParentLoop(paths, i, common) ==
    IF i > Len(paths) THEN common
    ELSE IF common = None
         THEN CommonParentLoop(paths, i + 1, Parent(paths[i]))
         ELSE IF common # Parent(paths[i])
              THEN None
              ELSE CommonParentLoop(paths, i + 1, common)

\* A common_parent that checks only the second path against the first.
common_parent_first_two(paths) ==
    CommonParentLoop(SubSeq(paths, 1, Min(Len(paths), 2)), 1, None)

\* common_parent(paths): the immediate parent, if all paths share it
common_parent(paths) == CommonParentLoop(paths, 1, None)

-----------------------------------------------------------------------------
(* The arguments and the filesystems the path functions are applied to. *)

Names == 1..NumNames

\* component sequences of length at most depth
PartsUpTo(depth) == UNION {[1..d -> Names] : d \in 0..depth}

AbsPathsUpTo(depth) == {AbsPath(s) : s \in PartsUpTo(depth)}

\* The filesystems with at most n entries below the root, all within P: an
\* entry is a directory or a file, and its parent is a directory.
RECURSIVE FsUpTo(_, _)
FsUpTo(P, n) ==
    IF n = 0 THEN {[dirs |-> {<<>>}, files |-> {}]}
    ELSE LET prev == FsUpTo(P, n - 1)
             free(f) == {q \in P : /\ q # <<>>
                                   /\ q \notin f.dirs \cup f.files
                                   /\ Prefix(q, Len(q) - 1) \in f.dirs}
         IN  prev \cup UNION {UNION {{[f EXCEPT !.dirs = @ \cup {q}],
                                      [f EXCEPT !.files = @ \cup {q}]} : q \in free(f)}
                              : f \in prev}

\* The smallest filesystem in which every one of the paths exists.
FsOf(paths) ==
    LET all == {paths[i].parts : i \in DOMAIN paths}
        ds == {<<>>} \cup UNION {{Prefix(s, n) : n \in 0..(Len(s) - 1)} : s \in all}
    IN  [dirs |-> ds, files |-> all \ ds]

-----------------------------------------------------------------------------
(* common_root applied to a pair of paths. *)

InitRoot ==
    /\ SigIdle
    /\ \E f \in FsUpTo(PartsUpTo(RootDepth), RootEntries) :
          /\ dirs = f.dirs
          /\ files = f.files
    /\ args \in [1..2 -> AbsPathsUpTo(RootDepth) \cup {PathDot, RelPath(<<1>>)}]
    /\ op = "none"
    /\ result = None

CallCommonRoot ==
    /\ op = "none"
    /\ op' = "common_root"
    /\ result' = common_root(args[1], args[2])
    /\ UNCHANGED <<dirs, files, args>>
    /\ UNCHANGED sigVars

SpecRoot == InitRoot /\ [][CallCommonRoot]_vars

(* common_ancestor applied to a sequence of absolute paths. *)

InitAncestor ==
    /\ SigIdle
    /\ \E f \in FsUpTo(PartsUpTo(AncDepth), AncEntries) :
          /\ dirs = f.dirs
          /\ files = f.files
    /\ \E n \in 0..AncLen : args \in [1..n -> AbsPathsUpTo(AncDepth)]
    /\ op = "none"
    /\ result = None

CallCommonAncestor ==
    /\ op = "none"
    /\ op' = "common_ancestor"
    /\ result' = common_ancestor(args)
    /\ UNCHANGED <<dirs, files, args>>
    /\ UNCHANGED sigVars

SpecAncestor == InitAncestor /\ [][CallCommonAncestor]_vars

(* common_parent applied to a sequence of absolute paths that exist. *)

InitParent ==
    /\ SigIdle
    /\ \E n \in 0..ParLen : args \in [1..n -> AbsPathsUpTo(ParDepth)]
    /\ dirs = FsOf(args).dirs
    /\ files = FsOf(args).files
    /\ op = "none"
    /\ result = None

CallCommonParent ==
    /\ op = "none"
    /\ op' = "common_parent"
    /\ result' = common_parent(args)
    /\ UNCHANGED <<dirs, files, args>>
    /\ UNCHANGED sigVars

SpecParent == InitParent /\ [][CallCommonParent]_vars

-----------------------------------------------------------------------------
(* tree(root, prefix): the lines of a directory listing.  A line is the    *)
(* string prefix + pointer + name, kept as the sequence of its four-       *)
(* character segments and the name that ends it.  Paths here are absolute  *)
(* and written as their component sequences.                               *)

\* names an entry is drawn from: 1..TreeNames
TreeNames == 3
\* deepest entry below the root of the filesystem
TreeDepth == 2
\* entries (files and directories) in the filesystem
TreeEntries == 4

_space == "    "
_branch == "|   "
_tee == "|-- "
_last == "+-- "

\* Path.name: the last component; Path('/').name is the empty string (0)
Name(path) == IF path = <<>> THEN 0 ELSE path[Len(path)]

\* Path.iterdir(): the entries directly inside the directory
IterDir(path) ==
    {q \in dirs \cup files : Len(q) = Len(path) + 1 /\ Prefix(q, Len(path)) = path}

\* Path.__lt__: paths compare as their component sequences do
RECURSIVE PathLess(_, _)
PathLess(p, q) ==
    IF q = <<>> THEN FALSE
    ELSE IF p = <<>> THEN TRUE
    ELSE IF p[1] # q[1] THEN p[1] < q[1]
    ELSE PathLess(Tail(p), Tail(q))

\* sorted(S)
RECURSIVE Sorted(_)
Sorted(S) ==
    IF S = {} THEN <<>>
    ELSE LET m == CHOOSE x \in S : \A y \in S : y = x \/ PathLess(x, y)
         IN  <<m>> \o Sorted(S \ {m})

\* prefix + pointer + path.name
Line(text, name) == [text |-> text, name |-> name]

\* An extension that ignores whether the directory is the last of its siblings.
ExtensionAlwaysBranch(i, lc1) == _branch

\* extension = _branch if i < lc1 else _space
Extension(i, lc1) == IF i < lc1 THEN _branch ELSE _space

\* pointer = _tee if i < lc1 else _last
Pointer(i, lc1) == IF i < lc1 THEN _tee ELSE _last

RECURSIVE tree(_, _)
RECURSIVE TreeLoop(_, _, _)

\* the for loop of tree over contents[k..]; Python's index i is k - 1
TreeLoop(contents, k, prefix) ==
    IF k > Len(contents) THEN <<>>
    ELSE LET lc1 == Len(contents) - 1
             i == k - 1
             path == contents[k]
             line == Line(prefix \o <<Pointer(i, lc1)>>, Name(path))
             below == IF path \in dirs
                      THEN tree(path, prefix \o <<Extension(i, lc1)>>)
                      ELSE <<>>
         IN  <<line>> \o below \o TreeLoop(contents, k + 1, prefix)

\* tree(root, prefix): everything the generator yields, in order
tree(root, prefix) ==
    IF root \notin dirs THEN <<Line(<<>>, Name(root))>>
    ELSE (IF prefix = <<>> THEN <<Line(<<>>, Name(root))>> ELSE <<>>)
         \o TreeLoop(Sorted(IterDir(root)), 1, prefix)

PartsOver(names, depth) == UNION {[1..d -> names] : d \in 0..depth}

InitTree ==
    /\ SigIdle
    /\ \E f \in FsUpTo(PartsOver(1..TreeNames, TreeDepth), TreeEntries) :
          /\ dirs = f.dirs
          /\ files = f.files
    /\ \E root \in dirs \cup files : args = <<AbsPath(root)>>
    /\ op = "none"
    /\ result = None

CallTree ==
    /\ op = "none"
    /\ op' = "tree"
    /\ result' = tree(args[1].parts, <<>>)
    /\ UNCHANGED <<dirs, files, args>>
    /\ UNCHANGED sigVars

SpecTree == InitTree /\ [][CallTree]_vars

-----------------------------------------------------------------------------
(* Properties of DelayedKeyboardInterrupt, checked under SpecSignal. *)

\* C1: SIGINTs delivered while the guard is armed never interrupt the protected
\* block and never reach the previous handler before __exit__; when __exit__
\* has run, the previous handler has been invoked by the guard exactly once,
\* with the recorded (signal, frame), if a SIGINT arrived in this armed period,
\* and not at all if none arrived.
C1_DeferredThenDeliveredOnce ==
    /\ exitPath # "interrupted"
    /\ pc \in {"entering", "armed", "leaving"} =>
          /\ installed = "guard"
          /\ invoked = <<>>
    /\ exitStage = "done" =>
          IF arrived > 0
          THEN /\ Len(invoked) = 1
               /\ invoked[1].args.sig = SIGINT
               /\ invoked[1].args.frame[1] = cycle
          ELSE invoked = <<>>

\* C2: once __exit__ has been reached, on every exit path of the block, the
\* installed SIGINT handler is the one found by __enter__ and not the guard's;
\* every call the guard makes of the old handler happens with that handler
\* already re-installed; and the with statement is never left without it.
C2_RestoredBeforeRedelivery ==
    /\ (cycle > 0 /\ pc \in {"restored", "idle", "dead"}) => exitStage # "none"
    /\ exitStage # "none" =>
          /\ installed = before
          /\ installed # "guard"
    /\ \A i \in DOMAIN invoked :
          /\ invoked[i].installed = before
          /\ invoked[i].installed # "guard"

\* C2 witness: the block raised, a signal had been recorded, and __exit__ has
\* restored the callable handler and called it.
C2_Witness ==
    /\ exitStage = "done"
    /\ exitPath = "raise"
    /\ Len(invoked) = 1
    /\ before = "callable"
    /\ installed = "callable"

\* C3: the guard raises nothing of its own, whatever the previous disposition
\* was and whether or not a signal was recorded: what leaves the with
\* statement is nothing, the block's error, or what the previous handler
\* raised; and a block error propagates when the old handler was not called.
C3_GuardNeverRaises ==
    /\ propagated \in {"none", "BlockError", "KeyboardInterrupt"}
    /\ (exitStage = "done" /\ exitPath = "raise" /\ invoked = <<>>) =>
          propagated = "BlockError"

\* C10: every __enter__ leaves the pending-signal record empty, so an exit
\* of an armed period in which no SIGINT arrived re-delivers nothing.
C10_EntryClearsPending ==
    /\ (pc = "armed" /\ arrived = 0) => signal_received = NoSignal
    /\ (exitStage = "done" /\ arrived = 0) => invoked = <<>>

-----------------------------------------------------------------------------
(* Properties of the path functions. *)

\* what common_ancestor makes of one path: a directory as it is, anything
\* else replaced by its parent
Normalized(p) == IF IsDir(p) THEN p ELSE Parent(p)

\* q is an ancestor of, or equal to, every normalized path of the sequence
CommonToAll(q, paths) ==
    \A i \in DOMAIN paths : IsPrefix(q, Normalized(paths[i]).parts)

Perms(n) == {f \in [1..n -> 1..n] : \A i, j \in 1..n : i # j => f[i] # f[j]}

\* C4: on a non-empty sequence of absolute paths, existing or not,
\* common_ancestor returns an ancestor-or-equal of every normalized path, and
\* no deeper path is one.
C4_DeepestCommonAncestor ==
    (op = "common_ancestor" /\ args # <<>>) =>
        /\ IsAbsolute(result)
        /\ CommonToAll(result.parts, args)
        /\ \A q \in PartsUpTo(AncDepth) :
              CommonToAll(q, args) => Len(q) <= Len(result.parts)

\* C5 as stated: common_root(a, a) is a's parent, for every absolute a.
C5_SelfIsParent ==
    (op = "common_root" /\ args[1] = args[2] /\ IsAbsolute(args[1])) =>
        result = Parent(args[1])

\* C5: common_root(a, a) is a itself when a is a directory (the root
\* included) and a's parent when a is a file or does not exist.
C5_SelfIsDirOrParent ==
    (op = "common_root" /\ args[1] = args[2] /\ IsAbsolute(args[1])) =>
        result = IF IsDir(args[1]) THEN args[1] ELSE Parent(args[1])

\* C5 witness: common_root(a, a) has been computed for a directory a below
\* the root, and is a.
C5_Witness ==
    /\ op = "common_root"
    /\ args[1] = args[2]
    /\ IsDir(args[1])
    /\ args[1] # Root
    /\ result = args[1]

\* C6: common_ancestor returns the same for every permutation of the sequence.
C6_OrderIndependent ==
    op = "common_ancestor" =>
        \A s \in Perms(Len(args)) :
            common_ancestor([i \in 1..Len(args) |-> args[s[i]]]) = result

\* C7: common_root(a, b) = common_root(b, a) for absolute a and b, directories
\* or not.
C7_Symmetric ==
    (op = "common_root" /\ IsAbsolute(args[1]) /\ IsAbsolute(args[2])) =>
        result = common_root(args[2], args[1])

\* C7 witness: a directory and a non-directory below it, in either order, with
\* the directory as the common root.
C7_Witness ==
    /\ op = "common_root"
    /\ IsDir(args[1])
    /\ ~IsDir(args[2])
    /\ args[1] # Root
    /\ IsPrefix(args[1].parts, args[2].parts)
    /\ result = args[1]

\* C8: common_parent returns the parent shared by every path of a non-empty
\* sequence, and None when two parents differ or the sequence is empty.
C8_ParentIffAllShareIt ==
    op = "common_parent" =>
        IF args # <<>> /\ \A i \in DOMAIN args : Parent(args[i]) = Parent(args[1])
        THEN result = Parent(args[1])
        ELSE result = None

\* C8 witness: the third path's parent differs from the first two's;
\* common_parent has returned None where common_ancestor returns a directory
\* below the root.
C8_Witness ==
    /\ op = "common_parent"
    /\ Len(args) = 3
    /\ Parent(args[1]) = Parent(args[2])
    /\ Parent(args[3]) # Parent(args[1])
    /\ result = None
    /\ common_ancestor(args) \notin {None, Root}

-----------------------------------------------------------------------------
(* Properties of tree. *)

\* the entries of the subtree below root
Below(root) == {q \in dirs \cup files : q # root /\ IsPrefix(root, q)}

\* q is the last of the entries of its directory
IsLastSibling(q) ==
    \A s \in dirs \cup files :
        (Len(s) = Len(q) /\ Prefix(s, Len(s) - 1) = Prefix(q, Len(q) - 1))
            => s[Len(s)] <= q[Len(q)]

\* the line C9 describes for an entry q below root: one segment per ancestor
\* strictly between root and q, then the connector, then the name
ListingLine(root, q) ==
    LET d == Len(q) - Len(root)
        segment(k) == IF IsLastSibling(Prefix(q, Len(root) + k))
                      THEN _space ELSE _branch
        connector == IF IsLastSibling(q) THEN _last ELSE _tee
    IN  Line([k \in 1..(d - 1) |-> segment(k)] \o <<connector>>, q[Len(q)])

\* the place of q in the listing: after the root's line and after every entry
\* that precedes it in pre-order (a directory before its contents, siblings by name)
ListingIndex(root, q) ==
    2 + Cardinality({e \in Below(root) : PathLess(e, q)})

\* C9: tree(root) on a directory is the root's name and then one line per
\* entry of the subtree, in pre-order with siblings sorted, each line made of
\* its ancestors' segments, its connector and its name; on a non-directory it
\* is the root's name alone.
C9_TreeListing ==
    op = "tree" =>
        LET root == args[1].parts
        IN  IF root \in dirs
            THEN /\ Len(result) = 1 + Cardinality(Below(root))
                 /\ result[1] = Line(<<>>, Name(root))
                 /\ \A q \in Below(root) :
                       result[ListingIndex(root, q)] = ListingLine(root, q)
            ELSE result = <<Line(<<>>, Name(root))>>

\* C9 witness: a listing with three entries at the top, the last of them a
\* directory with an entry of its own, which is listed behind blank space.
C9_Witness ==
    /\ op = "tree"
    /\ args[1] = Root
    /\ Len(result) = 5
    /\ Cardinality(IterDir(<<>>)) = 3
    /\ result[4].text = <<_last>>
    /\ result[5].text = <<_space, _last>>

=============================================================================
